---- MODULE Spec2Model ----
(***************************************************************************)
(* A model of ErikLibC's heap allocator (src/src/malloc.c): the block      *)
(* headers that live inside heap_buffer, the four heap globals, and the    *)
(* operations heap_init, malloc and free, translated statement by          *)
(* statement.                                                              *)
(*                                                                         *)
(* Memory is modelled at header granularity: mem maps an address to the    *)
(* heap_block record whose header starts there.  A header that a merge has *)
(* dropped from the list is not erased by the code; mem keeps it for as    *)
(* long as some pointer can still lead to it (a pointer a caller kept      *)
(* after freeing it, or a link stored in a header that can be reached),    *)
(* so a stale pointer finds the bytes the code left behind.                *)
(*                                                                         *)
(* size_t / uintptr_t values are 64-bit unsigned.  A value v is kept as    *)
(* the integer v when v is small and as v - 2^64 (a negative integer) when *)
(* v is close to 2^64; + and - on this representation are exact modulo     *)
(* 2^64 and the unsigned order is ULt below.                               *)
(***************************************************************************)
EXTENDS Integers, FiniteSets, Sequences, TLC

VARIABLES
    heap_start,   \* malloc.c:22  static uintptr_t heap_start
    heap_end,     \* malloc.c:23  static uintptr_t heap_end
    first_block,  \* malloc.c:24  static heap_block *first_block
    last_block,   \* malloc.c:25  static heap_block *last_block
    mem,          \* malloc.c:27  heap_buffer, as address -> heap_block header
    live,         \* caller side: pointer -> requested size, for every
                  \* pointer malloc returned that has not been freed since
    freed,        \* caller side: pointers passed to free and not returned
                  \* by malloc again since
    call,         \* the last completed call: [op, arg, ret]
    data,         \* caller side: what callers stored in their allocations,
                  \* as address -> the heap_block those bytes read as
    hist,         \* caller side: the log of the calls made so far, kept
                  \* only by the callers that record one: [on, calls]
    strcall,      \* a call of a string.c function: its arguments, its
                  \* position and its result
    thr           \* caller side: the callers that share the heap under a
                  \* lock: who holds the lock, where each caller is in its
                  \* call, and the pointers each caller holds

vars == <<heap_start, heap_end, first_block, last_block, mem, live, freed, call,
          data, hist, strcall, thr>>

-----------------------------------------------------------------------------
(* Constants of the program and bounds of the model *)

NULL == 0

\* sizeof(heap_block): bool used (padded to 8), size_t, two pointers
HeaderSize == 32

\* sizeof(heap_buffer)
HeapBufferSize == 256

\* The address the linker gives heap_buffer
HeapBase == 4096

\* size_t value 2^64 - 1 in the representation described above
SIZE_MAX == 0 - 1

\* The request sizes the callers draw from: zero, an odd size, a size that
\* splits the initial block, the largest size that does not split it, its
\* exact size, and the largest size_t
ReqSizes == {0, 1, 96, 160, 224, SIZE_MAX}

\* The most allocations the callers hold at once
MaxLive == 3

\* The most freed pointers a misbehaving caller keeps
MaxDangling == 1

\* The most calls a recording caller makes
MaxCalls == 5

-----------------------------------------------------------------------------
(* 64-bit unsigned comparison *)

ULt(a, b) == IF (a < 0) = (b < 0) THEN a < b ELSE b < 0
UGe(a, b) == ~ULt(a, b)
UGt(a, b) == ULt(b, a)

-----------------------------------------------------------------------------
(* Memory *)

\* A header in never-written static storage reads as all zero bytes
ZeroBlock == [used |-> FALSE, size |-> 0, previous |-> NULL, next |-> NULL]

Load(m, a) == IF a \in DOMAIN m THEN m[a] ELSE ZeroBlock

\* Two distinct header addresses whose byte ranges intersect
Overlap(a, b) == a # b /\ a - b < HeaderSize /\ b - a < HeaderSize

\* Writing (part of) the header at a: every other recorded header whose
\* bytes intersect it no longer holds what was last stored there, and is
\* dropped from the record
Store(m, a, blk) ==
    [b \in {x \in DOMAIN m : ~Overlap(a, x)} \cup {a} |->
        IF b = a THEN blk ELSE m[b]]

Heap == [heap_start |-> heap_start, heap_end |-> heap_end,
         first_block |-> first_block, last_block |-> last_block,
         mem |-> mem]

-----------------------------------------------------------------------------
(* malloc.c, function by function.  h is the heap (globals and memory)     *)
(* before the call; the result is the heap after it.                       *)

\* heap_split_block that places the second header size bytes after the first
\* header's start, leaving out sizeof(heap_block)
heap_split_block_NoHeaderOffset(h, first, size) ==
    LET second == first + size
        second_size == Load(h.mem, first).size - size - HeaderSize
        m1 == Store(h.mem, second,
                    [used |-> FALSE, previous |-> first,
                     next |-> Load(h.mem, first).next, size |-> second_size])
        m2 == Store(m1, first,
                    [Load(m1, first) EXCEPT !.next = second, !.size = size])
        nn == Load(m2, second).next
        m3 == IF nn # NULL
              THEN Store(m2, nn, [Load(m2, nn) EXCEPT !.previous = second])
              ELSE m2
    IN  [h EXCEPT !.mem = m3,
                  !.last_block = IF h.last_block = first THEN second
                                 ELSE h.last_block]

heap_split_block(h, first, size) ==
    LET second == first + HeaderSize + size
        second_size == Load(h.mem, first).size - size - HeaderSize
        m1 == Store(h.mem, second,
                    [used |-> FALSE, previous |-> first,
                     next |-> Load(h.mem, first).next, size |-> second_size])
        m2 == Store(m1, first,
                    [Load(m1, first) EXCEPT !.next = second, !.size = size])
        nn == Load(m2, second).next
        m3 == IF nn # NULL
              THEN Store(m2, nn, [Load(m2, nn) EXCEPT !.previous = second])
              ELSE m2
    IN  [h EXCEPT !.mem = m3,
                  !.last_block = IF h.last_block = first THEN second
                                 ELSE h.last_block]

\* heap_merge_blocks that leaves last_block alone
heap_merge_blocks_KeepLast(h, first, second) ==
    LET sn == Load(h.mem, second).next
        m1 == IF sn # NULL
              THEN Store(h.mem, sn, [Load(h.mem, sn) EXCEPT !.previous = first])
              ELSE h.mem
        m2 == Store(m1, first,
                    [Load(m1, first) EXCEPT
                        !.next = Load(m1, second).next,
                        !.size = Load(m1, first).size
                                 + Load(m1, second).size + HeaderSize])
    IN  [h EXCEPT !.mem = m2]

\* heap_merge_blocks that adds only second->size to first->size
heap_merge_blocks_NoHeader(h, first, second) ==
    LET sn == Load(h.mem, second).next
        m1 == IF sn # NULL
              THEN Store(h.mem, sn, [Load(h.mem, sn) EXCEPT !.previous = first])
              ELSE h.mem
        m2 == Store(m1, first,
                    [Load(m1, first) EXCEPT
                        !.next = Load(m1, second).next,
                        !.size = Load(m1, first).size
                                 + Load(m1, second).size])
    IN  [h EXCEPT !.mem = m2,
                  !.last_block = IF h.last_block = second THEN first
                                 ELSE h.last_block]

heap_merge_blocks(h, first, second) ==
    LET sn == Load(h.mem, second).next
        m1 == IF sn # NULL
              THEN Store(h.mem, sn, [Load(h.mem, sn) EXCEPT !.previous = first])
              ELSE h.mem
        m2 == Store(m1, first,
                    [Load(m1, first) EXCEPT
                        !.next = Load(m1, second).next,
                        !.size = Load(m1, first).size
                                 + Load(m1, second).size + HeaderSize])
    IN  [h EXCEPT !.mem = m2,
                  !.last_block = IF h.last_block = second THEN first
                                 ELSE h.last_block]

\* expand_heap that moves heap_end before it gives up
expand_heap_Grow(h) ==
    [heap |-> [h EXCEPT !.heap_end = @ + HeaderSize], ret |-> FALSE]

expand_heap(h) == [heap |-> h, ret |-> FALSE]

\* heap_init that gives the first block the whole buffer as payload
heap_init_WholeBuffer(h) ==
    LET start == HeapBase
    IN  [heap_start |-> start,
         heap_end |-> start + HeapBufferSize,
         first_block |-> start,
         last_block |-> start,
         mem |-> Store(h.mem, start,
                       [size |-> HeapBufferSize,
                        previous |-> NULL, next |-> NULL, used |-> FALSE])]

heap_init(h) ==
    LET start == HeapBase
    IN  [heap_start |-> start,
         heap_end |-> start + HeapBufferSize,
         first_block |-> start,
         last_block |-> start,
         mem |-> Store(h.mem, start,
                       [size |-> HeapBufferSize - HeaderSize,
                        previous |-> NULL, next |-> NULL, used |-> FALSE])]

\* Fits with > for >=
Fits_Strict(blk, size) == ~blk.used /\ UGt(blk.size, size)

\* Fits that turns down requests of size 0
Fits_RejectZero(blk, size) == size # 0 /\ ~blk.used /\ UGe(blk.size, size)

\* Fits that compares the sizes as signed numbers
Fits_Signed(blk, size) == ~blk.used /\ blk.size >= size

\* Fits without the size test
Fits_AnyFree(blk, size) == ~blk.used

\* The test of do_malloc's loop body on block i
Fits(blk, size) == ~blk.used /\ UGe(blk.size, size)

\* NeedsSplit with >= for >
NeedsSplit_Ge(blk, size) == UGe(blk.size, size + 2 * HeaderSize)

\* The test that decides whether the chosen block is split
NeedsSplit(blk, size) == UGt(blk.size, size + 2 * HeaderSize)

\* MarkUsed that leaves the flag alone
MarkUsed_Skip(h, i) == h

\* i->used = true
MarkUsed(h, i) ==
    [h EXCEPT !.mem = Store(h.mem, i, [Load(h.mem, i) EXCEPT !.used = TRUE])]

\* do_malloc's loop, from block i on
RECURSIVE do_malloc_from(_, _, _)
do_malloc_from(h, i, size) ==
    IF i = NULL THEN [heap |-> h, ret |-> NULL]
    ELSE IF Fits(Load(h.mem, i), size)
         THEN LET h1 == IF NeedsSplit(Load(h.mem, i), size)
                        THEN heap_split_block(h, i, size)
                        ELSE h
              IN  [heap |-> MarkUsed(h1, i), ret |-> i]
         ELSE do_malloc_from(h, Load(h.mem, i).next, size)

do_malloc(h, size) == do_malloc_from(h, h.first_block, size)

\* malloc that returns do_malloc's result plus the header size without
\* testing it for NULL
malloc_NoNullCheck(h, size) ==
    LET r == do_malloc(h, size)
    IN  [heap |-> r.heap, ret |-> r.ret + HeaderSize]

RECURSIVE malloc(_, _)
malloc(h, size) ==
    LET r == do_malloc(h, size)
    IN  IF r.ret # NULL
        THEN [heap |-> r.heap, ret |-> r.ret + HeaderSize]
        ELSE LET e == expand_heap(r.heap)
             IN  IF ~e.ret THEN [heap |-> e.heap, ret |-> NULL]
                 ELSE malloc(e.heap, size)

\* The calls malloc makes, in order
RECURSIVE malloc_trace(_, _)
malloc_trace(h, size) ==
    LET r == do_malloc(h, size)
    IN  IF r.ret # NULL
        THEN <<"do_malloc">>
        ELSE LET e == expand_heap(r.heap)
             IN  IF ~e.ret THEN <<"do_malloc", "expand_heap">>
                 ELSE <<"do_malloc", "expand_heap">> \o malloc_trace(e.heap, size)

\* The calls of heap_split_block that do_malloc(size) makes on heap h, each
\* with its arguments and the heap it is made on
do_malloc_splits(h, size) ==
    LET i == do_malloc(h, size).ret
    IN  IF i # NULL /\ NeedsSplit(Load(h.mem, i), size)
        THEN <<[first |-> i, size |-> size, heap |-> h]>>
        ELSE <<>>

\* The calls of heap_merge_blocks that free(ptr) makes on heap h, each with
\* its arguments and the heap it is made on
free_merges(h, ptr) ==
    LET i == ptr - HeaderSize
    IN  IF ULt(i, h.heap_start) \/ UGe(i, h.heap_end) THEN <<>>
        ELSE
        LET h1 == [h EXCEPT !.mem =
                      Store(h.mem, i, [Load(h.mem, i) EXCEPT !.used = FALSE])]
            n1 == Load(h1.mem, i).next
            fwd == n1 # NULL /\ ~Load(h1.mem, n1).used
            h2 == IF fwd THEN heap_merge_blocks(h1, i, n1) ELSE h1
            p2 == Load(h2.mem, i).previous
            bwd == p2 # NULL /\ ~Load(h2.mem, p2).used
        IN  (IF fwd THEN <<[first |-> i, second |-> n1, heap |-> h1]>>
             ELSE <<>>)
            \o (IF bwd THEN <<[first |-> p2, second |-> i, heap |-> h2]>>
                ELSE <<>>)

\* free whose range test leaves out the lower bound
free_NoLowerBound(h, ptr) ==
    LET i == ptr - HeaderSize
    IN  IF UGe(i, h.heap_end) THEN h
        ELSE
        LET h1 == [h EXCEPT !.mem =
                      Store(h.mem, i, [Load(h.mem, i) EXCEPT !.used = FALSE])]
            n1 == Load(h1.mem, i).next
            h2 == IF n1 # NULL /\ ~Load(h1.mem, n1).used
                  THEN heap_merge_blocks(h1, i, n1)
                  ELSE h1
            p2 == Load(h2.mem, i).previous
            h3 == IF p2 # NULL /\ ~Load(h2.mem, p2).used
                  THEN heap_merge_blocks(h2, p2, i)
                  ELSE h2
        IN  h3

\* free without the merge of the next block
free_NoForwardMerge(h, ptr) ==
    LET i == ptr - HeaderSize
    IN  IF ULt(i, h.heap_start) \/ UGe(i, h.heap_end) THEN h
        ELSE
        LET h1 == [h EXCEPT !.mem =
                      Store(h.mem, i, [Load(h.mem, i) EXCEPT !.used = FALSE])]
            p2 == Load(h1.mem, i).previous
            h3 == IF p2 # NULL /\ ~Load(h1.mem, p2).used
                  THEN heap_merge_blocks(h1, p2, i)
                  ELSE h1
        IN  h3

\* free without the merge into the previous block
free_NoBackwardMerge(h, ptr) ==
    LET i == ptr - HeaderSize
    IN  IF ULt(i, h.heap_start) \/ UGe(i, h.heap_end) THEN h
        ELSE
        LET h1 == [h EXCEPT !.mem =
                      Store(h.mem, i, [Load(h.mem, i) EXCEPT !.used = FALSE])]
            n1 == Load(h1.mem, i).next
            h2 == IF n1 # NULL /\ ~Load(h1.mem, n1).used
                  THEN heap_merge_blocks(h1, i, n1)
                  ELSE h1
        IN  h2

\* free that merges the next block whether or not it is used
free_MergeUsedNext(h, ptr) ==
    LET i == ptr - HeaderSize
    IN  IF ULt(i, h.heap_start) \/ UGe(i, h.heap_end) THEN h
        ELSE
        LET h1 == [h EXCEPT !.mem =
                      Store(h.mem, i, [Load(h.mem, i) EXCEPT !.used = FALSE])]
            n1 == Load(h1.mem, i).next
            h2 == IF n1 # NULL
                  THEN heap_merge_blocks(h1, i, n1)
                  ELSE h1
            p2 == Load(h2.mem, i).previous
            h3 == IF p2 # NULL /\ ~Load(h2.mem, p2).used
                  THEN heap_merge_blocks(h2, p2, i)
                  ELSE h2
        IN  h3

\* free that does not clear the used flag
free_KeepUsed(h, ptr) ==
    LET i == ptr - HeaderSize
    IN  IF ULt(i, h.heap_start) \/ UGe(i, h.heap_end) THEN h
        ELSE
        LET h1 == h
            n1 == Load(h1.mem, i).next
            h2 == IF n1 # NULL /\ ~Load(h1.mem, n1).used
                  THEN heap_merge_blocks(h1, i, n1)
                  ELSE h1
            p2 == Load(h2.mem, i).previous
            h3 == IF p2 # NULL /\ ~Load(h2.mem, p2).used
                  THEN heap_merge_blocks(h2, p2, i)
                  ELSE h2
        IN  h3

\* free that merges into the previous block before it merges the next one
free_BackwardFirst(h, ptr) ==
    LET i == ptr - HeaderSize
    IN  IF ULt(i, h.heap_start) \/ UGe(i, h.heap_end) THEN h
        ELSE
        LET h1 == [h EXCEPT !.mem =
                      Store(h.mem, i, [Load(h.mem, i) EXCEPT !.used = FALSE])]
            p1 == Load(h1.mem, i).previous
            h2 == IF p1 # NULL /\ ~Load(h1.mem, p1).used
                  THEN heap_merge_blocks(h1, p1, i)
                  ELSE h1
            n2 == Load(h2.mem, i).next
            h3 == IF n2 # NULL /\ ~Load(h2.mem, n2).used
                  THEN heap_merge_blocks(h2, i, n2)
                  ELSE h2
        IN  h3

free(h, ptr) ==
    LET i == ptr - HeaderSize
    IN  IF ULt(i, h.heap_start) \/ UGe(i, h.heap_end) THEN h
        ELSE
        LET h1 == [h EXCEPT !.mem =
                      Store(h.mem, i, [Load(h.mem, i) EXCEPT !.used = FALSE])]
            n1 == Load(h1.mem, i).next
            h2 == IF n1 # NULL /\ ~Load(h1.mem, n1).used
                  THEN heap_merge_blocks(h1, i, n1)
                  ELSE h1
            p2 == Load(h2.mem, i).previous
            h3 == IF p2 # NULL /\ ~Load(h2.mem, p2).used
                  THEN heap_merge_blocks(h2, p2, i)
                  ELSE h2
        IN  h3

-----------------------------------------------------------------------------
(* The program and its callers *)

\* The headers some pointer can still lead to: from the roots, along the
\* links stored in the headers
RECURSIVE Closure(_, _)
Closure(m, S) ==
    LET T == (S \cup {Load(m, a).next : a \in S}
                \cup {Load(m, a).previous : a \in S}) \cap DOMAIN m
    IN  IF T = S THEN S ELSE Closure(m, T)

Addressable(h, ptrs) ==
    Closure(h.mem, ({h.first_block, h.last_block}
                    \cup {p - HeaderSize : p \in ptrs}) \cap DOMAIN h.mem)

\* The heap after a call, given the freed pointers the callers still hold
Commit(h, ptrs) ==
    /\ heap_start' = h.heap_start
    /\ heap_end' = h.heap_end
    /\ first_block' = h.first_block
    /\ last_block' = h.last_block
    /\ mem' = [a \in Addressable(h, ptrs) |-> h.mem[a]]

\* No string.c call is in progress
NoStrCall == [fn |-> "none"]

\* The callers that share the heap
Threads == {1, 2}

\* A caller outside any call
Idle == [at |-> "idle"]

\* Nobody holds the lock, every caller is outside a call and holds no pointer
NoThreads ==
    [lock |-> 0, pc |-> [t \in Threads |-> Idle], held |-> [t \in Threads |-> {}]]

\* Static storage is zero before init_std runs
InitHeap ==
    /\ heap_start = 0
    /\ heap_end = 0
    /\ first_block = NULL
    /\ last_block = NULL
    /\ mem = <<>>
    /\ live = <<>>
    /\ freed = {}
    /\ call = [op |-> "none", arg |-> 0, ret |-> 0]
    /\ data = <<>>
    /\ strcall = NoStrCall
    /\ thr = NoThreads

Init ==
    /\ InitHeap
    /\ hist = [on |-> FALSE, calls |-> <<>>]

\* A recording caller makes at most MaxCalls calls
CanLog == hist.on => Len(hist.calls) < MaxCalls

\* The log after call c
Log(c) == hist' = IF hist.on THEN [hist EXCEPT !.calls = Append(@, c)] ELSE hist

\* init_std() calls heap_init(); the program runs it once, at start-up
HeapInit ==
    /\ heap_end = 0
    /\ CanLog
    /\ Commit(heap_init(Heap), freed)
    /\ UNCHANGED <<live, freed, data, strcall, thr>>
    /\ call' = [op |-> "heap_init", arg |-> 0, ret |-> 0]
    /\ Log(call')

\* A caller's malloc(size)
Malloc(size) ==
    /\ Cardinality(DOMAIN live) < MaxLive
    /\ CanLog
    /\ UNCHANGED <<data, strcall, thr>>
    /\ LET r == malloc(Heap, size)
       IN  /\ Commit(r.heap, freed \ {r.ret})
           /\ live' = IF r.ret # NULL
                      THEN [p \in DOMAIN live \cup {r.ret} |->
                               IF p = r.ret THEN size ELSE live[p]]
                      ELSE live
           /\ freed' = freed \ {r.ret}
           /\ call' = [op |-> "malloc", arg |-> size, ret |-> r.ret]
           /\ Log(call')

\* A caller's free(p) of a pointer it holds; it forgets the pointer
Free(p) ==
    /\ CanLog
    /\ Commit(free(Heap, p), freed)
    /\ live' = [q \in DOMAIN live \ {p} |-> live[q]]
    /\ UNCHANGED <<freed, data, strcall, thr>>
    /\ call' = [op |-> "free", arg |-> p, ret |-> 0]
    /\ Log(call')

Next ==
    \/ HeapInit
    \/ \E size \in ReqSizes : Malloc(size)
    \/ \E p \in DOMAIN live : Free(p)

Spec == Init /\ [][Next]_vars

\* The same program with callers that record their calls
InitTrace ==
    /\ InitHeap
    /\ hist = [on |-> TRUE, calls |-> <<>>]

SpecTrace == InitTrace /\ [][Next]_vars

-----------------------------------------------------------------------------
(* Callers that break free's contract *)

\* free(p) by a caller that keeps the pointer afterwards
FreeKeep(p) ==
    /\ Cardinality(freed) < MaxDangling
    /\ Commit(free(Heap, p), freed \cup {p})
    /\ live' = [q \in DOMAIN live \ {p} |-> live[q]]
    /\ freed' = freed \cup {p}
    /\ call' = [op |-> "free", arg |-> p, ret |-> 0]
    /\ UNCHANGED <<data, hist, strcall, thr>>

\* free(p) of a pointer that was freed already and whose header bytes are
\* still as the allocator left them
FreeAgain(p) ==
    /\ p - HeaderSize \in DOMAIN mem
    /\ Commit(free(Heap, p), freed)
    /\ UNCHANGED <<live, freed, data, hist, strcall, thr>>
    /\ call' = [op |-> "free_again", arg |-> p, ret |-> 0]

\* The request sizes of the callers that go on to break the contract
MisuseSizes == {0, 96, 224}

\* Valid usage, ended by at most one second free of a kept pointer
NextMisuse ==
    \/ call.op # "free_again" /\ HeapInit
    \/ call.op # "free_again" /\ \E size \in MisuseSizes : Malloc(size)
    \/ call.op # "free_again" /\ \E p \in DOMAIN live : Free(p)
    \/ call.op # "free_again" /\ \E p \in DOMAIN live : FreeKeep(p)
    \/ call.op # "free_again" /\ \E p \in freed : FreeAgain(p)

SpecMisuse == Init /\ [][NextMisuse]_vars

-----------------------------------------------------------------------------
(* Callers that pass free a pointer that does not point into heap_buffer *)

\* Pointers outside [heap_start, heap_end) whose header, at
\* p - sizeof(heap_block), does not reach past the end of heap_buffer
ForeignPtrs ==
    {8, heap_start - HeaderSize, heap_start - 1,
     heap_end, heap_end + HeaderSize, SIZE_MAX}

\* What a caller may store in the last sizeof(heap_block) bytes of its
\* allocation, read as a heap_block: a non-zero first byte, and possibly
\* the address of the first block in the bytes of previous
UserBlocks ==
    {[used |-> TRUE, size |-> 0, previous |-> pv, next |-> NULL] :
        pv \in {NULL, heap_start}}

\* A caller stores blk at address a inside its live allocation q
UserStore(q, a, blk) ==
    /\ q <= a /\ a + HeaderSize <= q + live[q]
    /\ a \notin DOMAIN data
    /\ data' = [x \in DOMAIN data \cup {a} |-> IF x = a THEN blk ELSE data[x]]
    /\ UNCHANGED <<heap_start, heap_end, first_block, last_block, mem,
                   live, freed, hist, strcall, thr>>
    /\ call' = [op |-> "store", arg |-> a, ret |-> 0]

\* free(p) of a foreign pointer: free reads and writes heap_buffer, which
\* holds the headers and the callers' data
FreeForeign(p) ==
    LET h == free([Heap EXCEPT !.mem = mem @@ data], p)
    IN  /\ Commit(h, freed)
        /\ data' = [a \in DOMAIN data \cap DOMAIN h.mem |-> h.mem[a]]
        /\ UNCHANGED <<live, freed, hist, strcall, thr>>
        /\ call' = [op |-> "free_foreign", arg |-> p, ret |-> 0]

\* Valid usage, then stores into live allocations, ended by at most one
\* free of a foreign pointer
NextForeign ==
    \/ data = <<>> /\ call.op # "free_foreign" /\ HeapInit
    \/ data = <<>> /\ call.op # "free_foreign"
          /\ \E size \in ReqSizes : Malloc(size)
    \/ data = <<>> /\ call.op # "free_foreign"
          /\ \E p \in DOMAIN live : Free(p)
    \/ call.op # "free_foreign"
          /\ \E q \in DOMAIN live : \E blk \in UserBlocks :
                UserStore(q, heap_end - HeaderSize, blk)
    \/ call.op # "free_foreign" /\ \E p \in ForeignPtrs : FreeForeign(p)

SpecForeign == Init /\ [][NextForeign]_vars

-----------------------------------------------------------------------------
(* Views of the heap used by the properties *)

\* heap_init has run
Inited == heap_end # 0

\* No list fits more blocks than this into the buffer
MaxBlocks == (HeapBufferSize \div HeaderSize) + 1

\* The headers reached from i along next, in order
RECURSIVE ListFrom(_, _, _)
ListFrom(m, i, fuel) ==
    IF i = NULL \/ fuel = 0 THEN <<>>
    ELSE <<i>> \o ListFrom(m, Load(m, i).next, fuel - 1)

\* The block list of heap h, as the sequence of header addresses
BlockList(h) == ListFrom(h.mem, h.first_block, MaxBlocks)

BlockSet(h) == {BlockList(h)[k] : k \in 1..Len(BlockList(h))}

RECURSIVE SumSizes(_, _)
SumSizes(m, bs) ==
    IF bs = <<>> THEN 0
    ELSE Load(m, Head(bs)).size + HeaderSize + SumSizes(m, Tail(bs))

\* Half-open byte ranges [a, a+n) and [b, b+k) share a byte
Intersects(a, n, b, k) == n > 0 /\ k > 0 /\ a < b + k /\ b < a + n

\* The block of the list whose header or payload holds address x
Covering(h, x) ==
    CHOOSE c \in BlockSet(h) \cup {NULL} :
        \/ c # NULL /\ c <= x /\ x < c + HeaderSize + Load(h.mem, c).size
        \/ c = NULL /\ \A d \in BlockSet(h) :
              ~(d <= x /\ x < d + HeaderSize + Load(h.mem, d).size)

ULe(a, b) == ~ULt(b, a)

\* The calls c end with A = malloc(S1), B = malloc(S2), free(A), free(B),
\* both mallocs having succeeded
EndsWithTwoFreed(c) ==
    LET n == Len(c)
    IN  /\ n >= 4
        /\ c[n-3].op = "malloc" /\ c[n-3].ret # NULL
        /\ c[n-2].op = "malloc" /\ c[n-2].ret # NULL
        /\ c[n-1].op = "free" /\ c[n-1].arg = c[n-3].ret
        /\ c[n].op = "free" /\ c[n].arg = c[n-2].ret

\* The calls c are heap_init, A = malloc(S1), B = malloc(S2), free(A) and a
\* malloc(S3) with S3 <= S1, both first mallocs having succeeded
IsReuseRun(c) ==
    /\ Len(c) = 5
    /\ c[1].op = "heap_init"
    /\ c[2].op = "malloc" /\ c[2].ret # NULL
    /\ c[3].op = "malloc" /\ c[3].ret # NULL
    /\ c[4].op = "free" /\ c[4].arg = c[2].ret
    /\ c[5].op = "malloc" /\ ULe(c[5].arg, c[2].arg)

\* The header addresses at which memory m2 differs from memory m1
Written(m1, m2) ==
    {a \in DOMAIN m2 : a \notin DOMAIN m1 \/ m2[a] # m1[a]}

\* alignof(heap_block): that of its size_t and pointer members
HeapBlockAlign == 8

\* No block is unused together with its successor
NoAdjacentFree(h) ==
    \A b \in BlockSet(h) :
        LET n == Load(h.mem, b).next
        IN  n # NULL => Load(h.mem, b).used \/ Load(h.mem, n).used

-----------------------------------------------------------------------------
(* Callers that pass free a pointer whose header address is not in the heap *)

\* Pointers p for which p - sizeof(heap_block), modulo 2^64, is below
\* heap_start or not below heap_end: NULL and other small values (the
\* subtraction wraps), pointers into the first sizeof(heap_block) bytes of
\* the heap, pointers far past its end, and, before heap_init, the address
\* the first allocation will have
StrayPtrs ==
    {NULL, 1, HeaderSize - 1, heap_start, heap_start + 1,
     heap_start + HeaderSize - 1, heap_end + HeaderSize, SIZE_MAX}
        \cup (IF heap_end = 0 THEN {HeapBase + HeaderSize} ELSE {})

\* free(p) of such a pointer
FreeStray(p) ==
    /\ Commit(free(Heap, p), freed)
    /\ UNCHANGED <<live, freed, data, hist, strcall, thr>>
    /\ call' = [op |-> "free_stray", arg |-> p, ret |-> 0]

\* Valid usage, ended by at most one free of a stray pointer
NextStray ==
    \/ call.op # "free_stray" /\ HeapInit
    \/ call.op # "free_stray" /\ \E size \in ReqSizes : Malloc(size)
    \/ call.op # "free_stray" /\ \E p \in DOMAIN live : Free(p)
    \/ call.op # "free_stray" /\ \E p \in StrayPtrs : FreeStray(p)

SpecStray == Init /\ [][NextStray]_vars

-----------------------------------------------------------------------------
(* Callers that, at some point of valid usage, note the heap and record the *)
(* calls they make from there on                                            *)

\* The calls recorded from the noted heap on
MaxRound == 2

\* The request sizes of these callers
RoundSizes == {1, 96, 160, 224, SIZE_MAX}

\* The callers note the heap as it is and start to record
StartLog ==
    /\ ~hist.on
    /\ heap_end # 0
    /\ hist' = [on |-> TRUE, calls |-> <<>>, from |-> Heap]
    /\ UNCHANGED <<heap_start, heap_end, first_block, last_block, mem, live,
                   freed, call, data, strcall, thr>>

RoundOpen == hist.on => Len(hist.calls) < MaxRound

NextRound ==
    \/ RoundOpen /\ HeapInit
    \/ RoundOpen /\ \E size \in RoundSizes : Malloc(size)
    \/ RoundOpen /\ \E p \in DOMAIN live : Free(p)
    \/ StartLog

SpecRound == Init /\ [][NextRound]_vars

-----------------------------------------------------------------------------
(* Callers that also ask for more than the heap can hold *)

\* Request sizes above the payload capacity, up to the top of the size_t
\* range; size + 2*sizeof(heap_block) wraps around for the last three
HugeSizes ==
    {HeapBufferSize - HeaderSize + 1, HeapBufferSize, 100000,
     SIZE_MAX - 2 * HeaderSize, SIZE_MAX - 2 * HeaderSize + 1,
     SIZE_MAX - 1, SIZE_MAX}

NextHuge ==
    \/ HeapInit
    \/ \E size \in ReqSizes \cup HugeSizes : Malloc(size)
    \/ \E p \in DOMAIN live : Free(p)

SpecHuge == Init /\ [][NextHuge]_vars

-----------------------------------------------------------------------------
(* Several callers, every malloc and free call under one lock *)

\* The request sizes of the callers that share the heap
LockedSizes == {0, 96, 224}

\* Acquire that does not wait for the lock
Acquire_NoWait(t) == TRUE

\* Caller t may take the lock: nobody holds it
Acquire(t) == thr.lock = 0

\* The pointers of the calls in progress
InCall == {thr.pc[t].ptr : t \in {u \in Threads : thr.pc[u].at # "idle"}}

\* The steps below change the heap and leave the callers' books alone
LockedStep(t, h, pc) ==
    /\ Commit(h, InCall)
    /\ thr' = [thr EXCEPT !.pc[t] = pc]
    /\ UNCHANGED <<live, freed, call, data, hist, strcall>>

\* Caller t takes the lock and calls malloc(size)
MallocEnter(t, size) ==
    /\ Inited
    /\ thr.pc[t].at = "idle"
    /\ Acquire(t)
    /\ Cardinality(DOMAIN live) < MaxLive
    /\ thr' = [thr EXCEPT !.lock = t,
                          !.pc[t] = [at |-> "scan", op |-> "malloc",
                                     arg |-> size, ptr |-> NULL, h0 |-> Heap]]
    /\ UNCHANGED <<heap_start, heap_end, first_block, last_block, mem, live,
                   freed, call, data, hist, strcall>>

\* do_malloc's loop up to the block it settles on (malloc.c:126-128)
MallocScan(t) ==
    /\ thr.pc[t].at = "scan"
    /\ LET i == do_malloc(Heap, thr.pc[t].arg).ret
       IN  thr' = [thr EXCEPT !.pc[t].at = IF i = NULL THEN "grow" ELSE "split",
                              !.pc[t].ptr = IF i = NULL THEN NULL
                                            ELSE i + HeaderSize]
    /\ UNCHANGED <<heap_start, heap_end, first_block, last_block, mem, live,
                   freed, call, data, hist, strcall>>

\* The split of the chosen block (malloc.c:129-130)
MallocSplit(t) ==
    /\ thr.pc[t].at = "split"
    /\ LET i == thr.pc[t].ptr - HeaderSize
           h == IF NeedsSplit(Load(mem, i), thr.pc[t].arg)
                THEN heap_split_block(Heap, i, thr.pc[t].arg)
                ELSE Heap
       IN  LockedStep(t, h, [thr.pc[t] EXCEPT !.at = "mark"])

\* i->used = true; return i (malloc.c:131-132, 153-154)
MallocMark(t) ==
    /\ thr.pc[t].at = "mark"
    /\ LockedStep(t, MarkUsed(Heap, thr.pc[t].ptr - HeaderSize),
                  [thr.pc[t] EXCEPT !.at = "ret"])

\* No block fits: expand_heap, and NULL when it fails (malloc.c:155-156)
MallocGrow(t) ==
    /\ thr.pc[t].at = "grow"
    /\ LET e == expand_heap(Heap)
       IN  LockedStep(t, e.heap,
                      [thr.pc[t] EXCEPT !.at = IF e.ret THEN "scan" ELSE "ret"])

\* malloc returns; caller t keeps the pointer and gives the lock back
MallocExit(t) ==
    /\ thr.pc[t].at = "ret" /\ thr.pc[t].op = "malloc"
    /\ LET p == thr.pc[t].ptr
       IN  /\ live' = IF p # NULL
                      THEN [q \in DOMAIN live \cup {p} |->
                               IF q = p THEN thr.pc[t].arg ELSE live[q]]
                      ELSE live
           /\ thr' = [thr EXCEPT !.lock = 0, !.pc[t] = Idle,
                                 !.held[t] = IF p # NULL THEN @ \cup {p} ELSE @]
           /\ call' = [op |-> "malloc", arg |-> thr.pc[t].arg, ret |-> p]
    /\ UNCHANGED <<heap_start, heap_end, first_block, last_block, mem, freed,
                   data, hist, strcall>>

\* Caller t takes the lock and calls free(p) on a pointer it holds
FreeEnter(t, p) ==
    /\ thr.pc[t].at = "idle"
    /\ Acquire(t)
    /\ p \in thr.held[t]
    /\ thr' = [thr EXCEPT !.lock = t,
                          !.pc[t] = [at |-> "unmark", op |-> "free",
                                     arg |-> p, ptr |-> p, h0 |-> Heap]]
    /\ UNCHANGED <<heap_start, heap_end, first_block, last_block, mem, live,
                   freed, call, data, hist, strcall>>

\* The range test and i->used = false (malloc.c:167-170)
FreeUnmark(t) ==
    /\ thr.pc[t].at = "unmark"
    /\ LET i == thr.pc[t].ptr - HeaderSize
       IN  IF ULt(i, heap_start) \/ UGe(i, heap_end)
           THEN LockedStep(t, Heap, [thr.pc[t] EXCEPT !.at = "ret"])
           ELSE LockedStep(t,
                    [Heap EXCEPT !.mem =
                        Store(mem, i, [Load(mem, i) EXCEPT !.used = FALSE])],
                    [thr.pc[t] EXCEPT !.at = "forward"])

\* The merge of the next block into i (malloc.c:172-173)
FreeForward(t) ==
    /\ thr.pc[t].at = "forward"
    /\ LET i == thr.pc[t].ptr - HeaderSize
           n == Load(mem, i).next
           h == IF n # NULL /\ ~Load(mem, n).used
                THEN heap_merge_blocks(Heap, i, n)
                ELSE Heap
       IN  LockedStep(t, h, [thr.pc[t] EXCEPT !.at = "backward"])

\* The merge of i into the previous block (malloc.c:174-175)
FreeBackward(t) ==
    /\ thr.pc[t].at = "backward"
    /\ LET i == thr.pc[t].ptr - HeaderSize
           p == Load(mem, i).previous
           h == IF p # NULL /\ ~Load(mem, p).used
                THEN heap_merge_blocks(Heap, p, i)
                ELSE Heap
       IN  LockedStep(t, h, [thr.pc[t] EXCEPT !.at = "ret"])

\* free returns; caller t forgets the pointer and gives the lock back
FreeExit(t) ==
    /\ thr.pc[t].at = "ret" /\ thr.pc[t].op = "free"
    /\ LET p == thr.pc[t].arg
       IN  /\ live' = [q \in DOMAIN live \ {p} |-> live[q]]
           /\ thr' = [thr EXCEPT !.lock = 0, !.pc[t] = Idle,
                                 !.held[t] = @ \ {p}]
           /\ call' = [op |-> "free", arg |-> p, ret |-> 0]
    /\ Commit(Heap, InCall \ {thr.pc[t].arg})
    /\ UNCHANGED <<freed, data, hist, strcall>>

NextLocked ==
    \/ HeapInit
    \/ \E t \in Threads, size \in LockedSizes : MallocEnter(t, size)
    \/ \E t \in Threads : MallocScan(t)
    \/ \E t \in Threads : MallocSplit(t)
    \/ \E t \in Threads : MallocMark(t)
    \/ \E t \in Threads : MallocGrow(t)
    \/ \E t \in Threads : MallocExit(t)
    \/ \E t \in Threads : \E p \in thr.held[t] : FreeEnter(t, p)
    \/ \E t \in Threads : FreeUnmark(t)
    \/ \E t \in Threads : FreeForward(t)
    \/ \E t \in Threads : FreeBackward(t)
    \/ \E t \in Threads : FreeExit(t)

SpecLocked == Init /\ [][NextLocked]_vars

-----------------------------------------------------------------------------
(* string.c and errno.c *)

\* The allocator's variables and its callers', which string.c calls that do
\* not allocate leave alone
allocVars == <<heap_start, heap_end, first_block, last_block, mem, live, freed,
               call, data, hist, thr>>

\* errno.h:22-99  the error number definitions, in the order of the file
errno_h ==
    <<
       [name |-> "E2BIG", value |-> 1],
       [name |-> "EACCES", value |-> 2],
       [name |-> "EADDRINUSE", value |-> 3],
       [name |-> "EADDRNOTAVAIL", value |-> 4],
       [name |-> "EAFNOSUPPORT", value |-> 5],
       [name |-> "EAGAIN", value |-> 6],
       [name |-> "EALREADY", value |-> 7],
       [name |-> "EBADF", value |-> 8],
       [name |-> "EBADMSG", value |-> 9],
       [name |-> "EBUSY", value |-> 10],
       [name |-> "ECANCELED", value |-> 11],
       [name |-> "ECHILD", value |-> 12],
       [name |-> "ECONNABORTED", value |-> 13],
       [name |-> "ECONNREFUSED", value |-> 14],
       [name |-> "ECONNRESET", value |-> 15],
       [name |-> "EDEADLK", value |-> 16],
       [name |-> "EDESTADDRREQ", value |-> 17],
       [name |-> "EDOM", value |-> 18],
       [name |-> "EDQUOT", value |-> 19],
       [name |-> "EEXIST", value |-> 20],
       [name |-> "EFAULT", value |-> 21],
       [name |-> "EFBIG", value |-> 22],
       [name |-> "EHOSTUNREACH", value |-> 23],
       [name |-> "EIDRM", value |-> 24],
       [name |-> "EILSEQ", value |-> 25],
       [name |-> "EINPROGRESS", value |-> 26],
       [name |-> "EINTR", value |-> 27],
       [name |-> "EINVAL", value |-> 28],
       [name |-> "EIO", value |-> 29],
       [name |-> "EISCONN", value |-> 30],
       [name |-> "EISDIR", value |-> 31],
       [name |-> "ELOOP", value |-> 32],
       [name |-> "EMFILE", value |-> 33],
       [name |-> "EMLINK", value |-> 34],
       [name |-> "EMSGSIZE", value |-> 35],
       [name |-> "EMULTIHOP", value |-> 36],
       [name |-> "ENAMETOOLONG", value |-> 37],
       [name |-> "ENETDOWN", value |-> 38],
       [name |-> "ENETRESET", value |-> 39],
       [name |-> "ENETUNREACH", value |-> 40],
       [name |-> "ENFILE", value |-> 41],
       [name |-> "ENOBUFS", value |-> 42],
       [name |-> "ENODEV", value |-> 43],
       [name |-> "ENOENT", value |-> 44],
       [name |-> "ENOEXEC", value |-> 45],
       [name |-> "ENOLCK", value |-> 46],
       [name |-> "ENOLINK", value |-> 47],
       [name |-> "ENOMEM", value |-> 48],
       [name |-> "ENOMSG", value |-> 49],
       [name |-> "ENOPROTOOPT", value |-> 50],
       [name |-> "ENOSPC", value |-> 51],
       [name |-> "ENOSYS", value |-> 52],
       [name |-> "ENOTCONN", value |-> 53],
       [name |-> "ENOTDIR", value |-> 54],
       [name |-> "ENOTEMPTY", value |-> 55],
       [name |-> "ENOTRECOVERABLE", value |-> 56],
       [name |-> "ENOTSOCK", value |-> 57],
       [name |-> "ENOTSUP", value |-> 58],
       [name |-> "ENOTTY", value |-> 59],
       [name |-> "ENXIO", value |-> 60],
       [name |-> "EOPNOTSUPP", value |-> 61],
       [name |-> "EOVERFLOW", value |-> 62],
       [name |-> "EOWNERDEAD", value |-> 63],
       [name |-> "EPERM", value |-> 64],
       [name |-> "EPIPE", value |-> 65],
       [name |-> "EPROTO", value |-> 66],
       [name |-> "EPROTONOSUPPORT", value |-> 67],
       [name |-> "EPROTOTYPE", value |-> 68],
       [name |-> "ERANGE", value |-> 69],
       [name |-> "EROFS", value |-> 70],
       [name |-> "ESOCKTNOSUPPORT", value |-> 71],
       [name |-> "ESPIPE", value |-> 72],
       [name |-> "ESRCH", value |-> 73],
       [name |-> "ESTALE", value |-> 74],
       [name |-> "ETIMEDOUT", value |-> 75],
       [name |-> "ETXTBSY", value |-> 76],
       [name |-> "EWOULDBLOCK", value |-> 77],
       [name |-> "EXDEV", value |-> 78]
    >>

E2BIG == 1
EXDEV == 78

\* errno.c:3-82  sys_errlist; element k+1 of the sequence is the C element
\* of index k, with the error constant its line names
sys_errlist ==
    <<
       [msg |-> "Argument list too long", for |-> "E2BIG"],
       [msg |-> "Permission denied", for |-> "EACCES"],
       [msg |-> "Address in use", for |-> "EADDRINUSE"],
       [msg |-> "Address not available", for |-> "EADDRNOTAVAIL"],
       [msg |-> "Address family not supported", for |-> "EAFNOSUPPORT"],
       [msg |-> "Resource temporarily unavailable", for |-> "EAGAIN"],
       [msg |-> "Connection already in progress", for |-> "EALREADY"],
       [msg |-> "Bad file descriptor", for |-> "EBADF"],
       [msg |-> "Bad message", for |-> "EBADMSG"],
       [msg |-> "Device or resource busy", for |-> "EBUSY"],
       [msg |-> "Operation canceled", for |-> "ECANCELED"],
       [msg |-> "No child processes", for |-> "ECHILD"],
       [msg |-> "Connection aborted", for |-> "ECONNABORTED"],
       [msg |-> "Connection refused", for |-> "ECONNREFUSED"],
       [msg |-> "Connection reset", for |-> "ECONNRESET"],
       [msg |-> "Resource deadlock avoided", for |-> "EDEADLK"],
       [msg |-> "Destination address required", for |-> "EDESTADDRREQ"],
       [msg |-> "Mathematics argument out of domain", for |-> "EDOM"],
       [msg |-> "Disk quota exceeded", for |-> "EDQUOT"],
       [msg |-> "File exists", for |-> "EEXIST"],
       [msg |-> "Bad address", for |-> "EFAULT"],
       [msg |-> "File too large", for |-> "EFBIG"],
       [msg |-> "Host is unreachable", for |-> "EHOSTUNREACH"],
       [msg |-> "Identifier removed", for |-> "EIDRM"],
       [msg |-> "Illegal byte sequence", for |-> "EILSEQ"],
       [msg |-> "Operation in progress", for |-> "EINPROGRESS"],
       [msg |-> "Interrupted function call", for |-> "EINTR"],
       [msg |-> "Invalid argument", for |-> "EINVAL"],
       [msg |-> "I/O error", for |-> "EIO"],
       [msg |-> "Socket is connected", for |-> "EISCONN"],
       [msg |-> "Is a directory", for |-> "EISDIR"],
       [msg |-> "Too many levels of symbolic links", for |-> "ELOOP"],
       [msg |-> "Too many open files", for |-> "EMFILE"],
       [msg |-> "Too many links", for |-> "EMLINK"],
       [msg |-> "Message too large", for |-> "EMSGSIZE"],
       [msg |-> "Multihop attempted", for |-> "EMULTIHOP"],
       [msg |-> "Filename too long", for |-> "ENAMETOOLONG"],
       [msg |-> "Network is down", for |-> "ENETDOWN"],
       [msg |-> "Network reset", for |-> "ENETRESET"],
       [msg |-> "Network unreachable", for |-> "ENETUNREACH"],
       [msg |-> "Too many open files in system", for |-> "ENFILE"],
       [msg |-> "No buffer space available", for |-> "ENOBUFS"],
       [msg |-> "No such device", for |-> "ENODEV"],
       [msg |-> "No such file or directory", for |-> "ENOENT"],
       [msg |-> "Exec format error", for |-> "ENOEXEC"],
       [msg |-> "No locks available", for |-> "ENOLCK"],
       [msg |-> "Link has been severed", for |-> "ENOLINK"],
       [msg |-> "Not enough memory", for |-> "ENOMEM"],
       [msg |-> "No message of the desired type", for |-> "ENOMSG"],
       [msg |-> "Protocol not available", for |-> "ENOPROTOOPT"],
       [msg |-> "No space left on device", for |-> "ENOSPC"],
       [msg |-> "Function not implemented", for |-> "ENOSYS"],
       [msg |-> "Socket is not connected", for |-> "ENOTCONN"],
       [msg |-> "Not a directory", for |-> "ENOTDIR"],
       [msg |-> "Directory not empty", for |-> "ENOTEMPTY"],
       [msg |-> "State not recoverable", for |-> "ENOTRECOVERABLE"],
       [msg |-> "Not a socket", for |-> "ENOTSOCK"],
       [msg |-> "Operation not supported", for |-> "ENOTSUP"],
       [msg |-> "Inappropriate I/O control operation", for |-> "ENOTTY"],
       [msg |-> "No such device or address", for |-> "ENXIO"],
       [msg |-> "Operation not supported on socket", for |-> "EOPNOTSUPP"],
       [msg |-> "Value too large to be stored in data type", for |-> "EOVERFLOW"],
       [msg |-> "Owner died", for |-> "EOWNERDEAD"],
       [msg |-> "Operation not permitted", for |-> "EPERM"],
       [msg |-> "Broken pipe", for |-> "EPIPE"],
       [msg |-> "Protocol error", for |-> "EPROTO"],
       [msg |-> "Protocol not supported", for |-> "EPROTONOSUPPORT"],
       [msg |-> "Protocol wrong type for socket", for |-> "EPROTOTYPE"],
       [msg |-> "Result too large", for |-> "ERANGE"],
       [msg |-> "Read-only file system", for |-> "EROFS"],
       [msg |-> "Socket type not supported", for |-> "ESOCKTNOSUPPORT"],
       [msg |-> "Invalid seek", for |-> "ESPIPE"],
       [msg |-> "No such process", for |-> "ESRCH"],
       [msg |-> "Stale file handle", for |-> "ESTALE"],
       [msg |-> "Connection timed out", for |-> "ETIMEDOUT"],
       [msg |-> "Text file busy", for |-> "ETXTBSY"],
       [msg |-> "Operation would block", for |-> "EWOULDBLOCK"],
       [msg |-> "Cross-device link", for |-> "EXDEV"]
    >>

\* errno.c:84
sys_nerr == EXDEV + 1

\* What a read of sys_errlist[k] past the end of the table can hand back:
\* whatever pointer the bytes behind the table hold
PastTheTable ==
    {sys_errlist[k].msg : k \in 1..Len(sys_errlist)}
        \cup {"Unknown error", "<not a string>"}

\* strerror(errnum): the results the call can have, with the index of
\* sys_errlist it read (-1 when it read none)
strerror(errnum) ==
    IF errnum >= 0 /\ errnum < sys_nerr
    THEN IF errnum < Len(sys_errlist)
         THEN {[ret |-> sys_errlist[errnum + 1].msg, read |-> errnum]}
         ELSE {[ret |-> r, read |-> errnum] : r \in PastTheTable}
    ELSE {[ret |-> "Unknown error", read |-> 0 - 1]}

\* The error numbers callers pass
MinErrnum == 0 - 16
MaxErrnum == 111
ErrNums == MinErrnum..MaxErrnum

\* A caller's strerror(errnum)
Strerror(errnum) ==
    /\ strcall.fn \in {"none", "strerror"}
    /\ \E r \in strerror(errnum) :
          strcall' = [fn |-> "strerror", errnum |-> errnum,
                      ret |-> r.ret, read |-> r.read]
    /\ UNCHANGED allocVars

NextStrerror == \E errnum \in ErrNums : Strerror(errnum)

SpecStrerror == Init /\ [][NextStrerror]_vars

\* Strings are sequences of character codes without the terminating 0;
\* Chars are the characters callers use, Canary the value of a byte of dest
\* no call has written
Chars == {97, 98}
Canary == 255
MaxStrLen == 3
MaxN == 4

RECURSIVE StringsUpTo(_)
StringsUpTo(k) ==
    IF k = 0 THEN {<<>>}
    ELSE StringsUpTo(k - 1)
            \cup {Append(s, c) : s \in StringsUpTo(k - 1), c \in Chars}

Strings == StringsUpTo(MaxStrLen)

\* The byte at index k (from 0) of the C string s: its characters, then 0
CharAt(s, k) == IF k < Len(s) THEN s[k + 1] ELSE 0

\* strncpy(dest, src, n) at its entry: d = dest, dest a buffer of MaxN + 2
\* bytes, none written yet
strncpy_enter(src, n) ==
    [fn |-> "strncpy", at |-> "copy", src |-> src, n0 |-> n,
     n |-> n, d |-> 0, s |-> 0,
     dest |-> [k \in 0..(MaxN + 1) |-> Canary], written |-> {}]

\* One evaluation of the first loop's condition, and of its body when the
\* condition holds:  while (n && (*d++ = *src++)) { n--; }
strncpy_copy(c) ==
    IF c.n = 0 THEN [c EXCEPT !.at = "fill"]
    ELSE LET b == CharAt(c.src, c.s)
             c1 == [c EXCEPT !.dest[c.d] = b, !.written = @ \cup {c.d},
                             !.d = @ + 1, !.s = @ + 1]
         IN  IF b # 0 THEN [c1 EXCEPT !.n = @ - 1]
             ELSE [c1 EXCEPT !.at = "fill"]

\* One evaluation of the second loop's condition, and of its body when the
\* condition holds:  while (n--) { *d++ = '\0'; }
strncpy_fill(c) ==
    IF c.n = 0 THEN [c EXCEPT !.n = SIZE_MAX, !.at = "done"]
    ELSE [c EXCEPT !.n = @ - 1, !.dest[c.d] = 0, !.written = @ \cup {c.d},
                   !.d = @ + 1]

StrncpyEnter(src, n) ==
    /\ strcall.fn = "none"
    /\ strcall' = strncpy_enter(src, n)
    /\ UNCHANGED allocVars

StrncpyCopy ==
    /\ strcall.fn = "strncpy" /\ strcall.at = "copy"
    /\ strcall' = strncpy_copy(strcall)
    /\ UNCHANGED allocVars

StrncpyFill ==
    /\ strcall.fn = "strncpy" /\ strcall.at = "fill"
    /\ strcall' = strncpy_fill(strcall)
    /\ UNCHANGED allocVars

NextStrncpy ==
    \/ \E src \in Strings, n \in 0..MaxN : StrncpyEnter(src, n)
    \/ StrncpyCopy
    \/ StrncpyFill

SpecStrncpy == Init /\ [][NextStrncpy]_vars

\* stpncpy(dest, src, n) at its entry; d and s count the bytes dest and src
\* have advanced
stpncpy_enter(src, n) ==
    [fn |-> "stpncpy", at |-> "copy", src |-> src, n0 |-> n,
     n |-> n, d |-> 0, s |-> 0,
     dest |-> [k \in 0..(MaxN + 1) |-> Canary], written |-> {}, ret |-> 0]

\* One evaluation of the first loop's condition, and of its body when the
\* condition holds:  while (n && (*dest = *src)) { dest++; src++; n--; }
stpncpy_copy(c) ==
    IF c.n = 0 THEN [c EXCEPT !.at = "test"]
    ELSE LET b == CharAt(c.src, c.s)
             c1 == [c EXCEPT !.dest[c.d] = b, !.written = @ \cup {c.d}]
         IN  IF b # 0
             THEN [c1 EXCEPT !.d = @ + 1, !.s = @ + 1, !.n = @ - 1]
             ELSE [c1 EXCEPT !.at = "test"]

\* if (n) ... else return dest
stpncpy_test(c) ==
    IF c.n # 0 THEN [c EXCEPT !.at = "fill"]
    ELSE [c EXCEPT !.at = "done", !.ret = c.d]

\* One evaluation of the second loop's condition, and of its body when the
\* condition holds:  while (n--) { *dest++ = '\0'; }  and then return dest
stpncpy_fill(c) ==
    IF c.n = 0 THEN [c EXCEPT !.n = SIZE_MAX, !.at = "done", !.ret = c.d]
    ELSE [c EXCEPT !.n = @ - 1, !.dest[c.d] = 0, !.written = @ \cup {c.d},
                   !.d = @ + 1]

StpncpyEnter(src, n) ==
    /\ strcall.fn = "none"
    /\ strcall' = stpncpy_enter(src, n)
    /\ UNCHANGED allocVars

StpncpyCopy ==
    /\ strcall.fn = "stpncpy" /\ strcall.at = "copy"
    /\ strcall' = stpncpy_copy(strcall)
    /\ UNCHANGED allocVars

StpncpyTest ==
    /\ strcall.fn = "stpncpy" /\ strcall.at = "test"
    /\ strcall' = stpncpy_test(strcall)
    /\ UNCHANGED allocVars

StpncpyFill ==
    /\ strcall.fn = "stpncpy" /\ strcall.at = "fill"
    /\ strcall' = stpncpy_fill(strcall)
    /\ UNCHANGED allocVars

NextStpncpy ==
    \/ \E src \in Strings, n \in 0..MaxN : StpncpyEnter(src, n)
    \/ StpncpyCopy
    \/ StpncpyTest
    \/ StpncpyFill

SpecStpncpy == Init /\ [][NextStpncpy]_vars

\* strtok and strtok_r.  A C string in memory is its characters followed by
\* the byte 0; a pointer is a buffer and an offset into it.  The tokeniser
\* sees two buffers: "cur", the string of the latest call with s # NULL, and
\* "old", the memory outside it that a pointer read from *saveptr leads to
\* (an earlier string, or whatever lies at an indeterminate address).
MaxTokCalls == 4
MaxDelimLen == 2

Delims == StringsUpTo(MaxDelimLen)

NullPtr == [b |-> "null", off |-> 0]
Ptr(b, off) == [b |-> b, off |-> off]

\* *saveptr before any call wrote it: strtok's static char *saveptr is
\* NULL (string.c:748), the variable of a caller of strtok_r holds an
\* indeterminate value
SaveUnwritten(fn) ==
    IF fn = "strtok" THEN NullPtr ELSE [b |-> "indeterminate", off |-> 0]

\* The inner loop of strspn and of strpbrk: does accept hold the byte ch
InAccept(ch, accept) == \E i \in 1..Len(accept) : accept[i] = ch

\* strspn(s, accept), s the offset off into bytes
RECURSIVE strspn(_, _, _)
strspn(bytes, off, accept) ==
    IF bytes[off + 1] # 0 /\ InAccept(bytes[off + 1], accept)
    THEN 1 + strspn(bytes, off + 1, accept)
    ELSE 0

\* strpbrk(s, accept): the offset of the first byte of accept, or NullPtr
RECURSIVE strpbrk(_, _, _)
strpbrk(bytes, off, accept) ==
    IF bytes[off + 1] = 0 THEN NullPtr
    ELSE IF InAccept(bytes[off + 1], accept) THEN Ptr("match", off)
    ELSE strpbrk(bytes, off + 1, accept)

\* strchr(s, '\0'): the offset of the terminating byte
RECURSIVE strchr(_, _)
strchr(bytes, off) ==
    IF bytes[off + 1] # 0 THEN strchr(bytes, off + 1) ELSE off

\* The C string at offset off of bytes, without its terminating byte
CStr(bytes, off) == SubSeq(bytes, off + 1, strchr(bytes, off))

\* What one call returned: the pointer, the string it points to at the
\* return, and where the call took s from ("arg", or the buffer *saveptr
\* led to, or "wild" when *saveptr was never written)
TokRet(ptr, str, from) == [ptr |-> ptr, str |-> str, from |-> from]

\* strtok_r from  s += strspn(s, delim)  on, with s resolved to a pointer
\* (string.c:770-782)
strtok_r_from(c, s, delim, from) ==
    LET bytes == c.buf[s.b]
        tok == s.off + strspn(bytes, s.off, delim)
    IN  IF bytes[tok + 1] = 0
        THEN [c EXCEPT !.rets = Append(@, TokRet(NullPtr, <<>>, from))]
        ELSE LET brk == strpbrk(bytes, tok, delim)
                 cut == IF brk # NullPtr
                        THEN [bytes EXCEPT ![brk.off + 1] = 0]
                        ELSE bytes
                 nxt == IF brk # NullPtr THEN brk.off + 1
                        ELSE strchr(bytes, tok)
             IN  [c EXCEPT !.buf[s.b] = cut,
                           !.save = Ptr(s.b, nxt),
                           !.rets = Append(@, TokRet(Ptr(s.b, tok),
                                                     CStr(cut, tok), from))]

\* What  s = *saveptr  followed by the reads of strspn can give: the saved
\* pointer when a call stored one; for a null or indeterminate value a
\* fault, or the bytes that happen to lie there (any string, held in "old");
\* an indeterminate value may also be an address inside the caller's string
SaveReads(c) ==
    IF c.save.b \in {"cur", "old"}
    THEN {[fault |-> FALSE, buf |-> c.buf, s |-> c.save, from |-> c.save.b]}
    ELSE {[fault |-> TRUE, buf |-> c.buf, s |-> NullPtr, from |-> "wild"]}
         \cup {[fault |-> FALSE, buf |-> [c.buf EXCEPT !.old = g \o <<0>>],
                s |-> Ptr("old", 0), from |-> "wild"] : g \in Strings}
         \cup (IF c.save.b = "null" THEN {}
               ELSE {[fault |-> FALSE, buf |-> c.buf, s |-> Ptr("cur", k),
                      from |-> "wild"] : k \in 0..(Len(c.buf.cur) - 1)})

\* strtok_r(s, delim, saveptr): the states the call can end in.  s is
\* NullPtr or a pointer into c.buf
strtok_r(c, s, delim) ==
    IF s # NullPtr THEN {strtok_r_from(c, s, delim, "arg")}
    ELSE {IF r.fault
          THEN [c EXCEPT !.fault = TRUE]
          ELSE strtok_r_from([c EXCEPT !.buf = r.buf], r.s, delim, r.from)
            : r \in SaveReads(c)}

\* strtok(s, delim): strtok_r on the static saveptr
strtok(c, s, delim) == strtok_r(c, s, delim)

\* The caller's state when it passes a fresh string str: the buffer a saved
\* pointer leads to stays in memory as "old"
tok_start(fn, str, delim) ==
    LET began == strcall.fn # "none"
        save == IF began THEN strcall.save ELSE SaveUnwritten(fn)
    IN  [fn |-> fn, orig |-> str, delim |-> delim, rets |-> <<>>,
         fault |-> FALSE,
         buf |-> [cur |-> str \o <<0>>,
                  old |-> IF save.b = "cur" THEN strcall.buf.cur
                          ELSE IF began THEN strcall.buf.old
                          ELSE <<0>>],
         save |-> IF save.b = "cur" THEN Ptr("old", save.off) ELSE save]

TokOpen(fn) ==
    /\ strcall.fn \in {"none", fn}
    /\ strcall.fn = fn => ~strcall.fault

\* strtok_r(s, delim, &save) with s a fresh string
StrtokRFirst(str, delim) ==
    /\ TokOpen("strtok_r")
    /\ strcall' \in strtok_r(tok_start("strtok_r", str, delim),
                             Ptr("cur", 0), delim)
    /\ UNCHANGED allocVars

\* strtok_r(NULL, delim, &save) with the delimiters of the first call
StrtokRNext ==
    /\ strcall.fn = "strtok_r" /\ ~strcall.fault
    /\ Len(strcall.rets) < MaxTokCalls
    /\ strcall' \in strtok_r(strcall, NullPtr, strcall.delim)
    /\ UNCHANGED allocVars

\* strtok(s, delim) with s a fresh string
StrtokFirst(str, delim) ==
    /\ TokOpen("strtok")
    /\ strcall' \in strtok(tok_start("strtok", str, delim),
                           Ptr("cur", 0), delim)
    /\ UNCHANGED allocVars

\* strtok(NULL, delim)
StrtokNext ==
    /\ strcall.fn = "strtok" /\ ~strcall.fault
    /\ Len(strcall.rets) < MaxTokCalls
    /\ strcall' \in strtok(strcall, NullPtr, strcall.delim)
    /\ UNCHANGED allocVars

NextStrtok ==
    \/ \E str \in Strings, delim \in Delims : StrtokRFirst(str, delim)
    \/ StrtokRNext
    \/ \E str \in Strings, delim \in Delims : StrtokFirst(str, delim)
    \/ StrtokNext

SpecStrtok == Init /\ [][NextStrtok]_vars

-----------------------------------------------------------------------------
(* Properties *)

\* C1: in every state after heap_init, under malloc calls and free calls on
\* live pointers, the sum of (size + sizeof(heap_block)) over the blocks
\* reachable from first_block equals sizeof(heap_buffer).
C1_SizeSum ==
    Inited => SumSizes(mem, BlockList(Heap)) = HeapBufferSize

\* A free has just merged blocks in a list that splits had grown
C1_Witness ==
    /\ call.op = "free"
    /\ call.arg - HeaderSize \notin BlockSet(Heap)
    /\ Len(BlockList(Heap)) >= 3

\* C2: the byte ranges [p, p+sp) of two distinct live allocations are
\* disjoint, and no such range intersects the header of a block in the list.
C2_NoOverlap ==
    /\ \A p, q \in DOMAIN live :
          p # q => ~Intersects(p, live[p], q, live[q])
    /\ \A p \in DOMAIN live : \A b \in BlockSet(Heap) :
          ~Intersects(p, live[p], b, HeaderSize)

\* Three live allocations of positive size
C2_Witness ==
    /\ Cardinality(DOMAIN live) >= 3
    /\ \A p \in DOMAIN live : live[p] > 0

\* C3: every pointer malloc returned lies in [heap_start, heap_end), and
\* while it is not freed, p - sizeof(heap_block) is the header of a block
\* in the list whose used flag is true.
C3_LiveIsUsedBlock ==
    \A p \in DOMAIN live :
        /\ heap_start <= p /\ p < heap_end
        /\ p - HeaderSize \in BlockSet(Heap)
        /\ Load(mem, p - HeaderSize).used

\* malloc(0) has just returned a pointer, while another allocation is live
C3_Witness ==
    /\ call.op = "malloc" /\ call.arg = 0 /\ call.ret # NULL
    /\ Cardinality(DOMAIN live) >= 2

\* C4: right after a free(p) of a live pointer, no block with a successor
\* is unused together with that successor.
C4_NoAdjacentFreeAfterFree ==
    call.op = "free" => NoAdjacentFree(Heap)

\* A free has just merged its block into the previous one and the list
\* still holds a used block
C4_Witness ==
    /\ call.op = "free"
    /\ call.arg - HeaderSize \notin BlockSet(Heap)
    /\ \E b \in BlockSet(Heap) : Load(mem, b).used

\* C5: the list is address-ordered and gap-free and covers the store: the
\* first header is at heap_start, each next header is at
\* address + sizeof(heap_block) + size, and the block whose next is NULL
\* ends at heap_end.
C5_GapFree ==
    Inited =>
        /\ first_block = heap_start
        /\ \A b \in BlockSet(Heap) :
              LET blk == Load(mem, b)
              IN  IF blk.next # NULL
                  THEN blk.next = b + HeaderSize + blk.size
                  ELSE b + HeaderSize + blk.size = heap_end
        /\ \E b \in BlockSet(Heap) : Load(mem, b).next = NULL

\* A list of at least four blocks, reached by a malloc that split
C5_Witness ==
    /\ call.op = "malloc" /\ call.ret # NULL
    /\ Len(BlockList(Heap)) >= 4
    /\ Load(mem, call.ret - HeaderSize).size = call.arg

\* C6: first-fit.  Whenever malloc(size) succeeds, the block it returns was
\* unused with block.size >= size when the call started, and no unused block
\* of sufficient size lay at a lower address.
C6_FirstFit ==
    [][(call'.op = "malloc" /\ call'.ret # NULL) =>
        LET b == call'.ret - HeaderSize
            size == call'.arg
        IN  /\ b \in BlockSet(Heap)
            /\ ~Load(mem, b).used
            /\ UGe(Load(mem, b).size, size)
            /\ \A c \in BlockSet(Heap) :
                  c < b => Load(mem, c).used \/ ULt(Load(mem, c).size, size)
      ]_vars

\* malloc has just passed over an unused block that was too small
C6_Witness ==
    /\ call.op = "malloc" /\ call.ret # NULL
    /\ \E c \in BlockSet(Heap) :
          /\ c < call.ret - HeaderSize
          /\ ~Load(mem, c).used
          /\ Load(mem, c).size < call.arg

\* C7: no partial allocation.  When malloc(size) returns a non-NULL pointer
\* p, the block at p - sizeof(heap_block) is a used block of the list with
\* block.size >= size, so [p, p+size) lies inside that block and the store.
C7_NoPartialAllocation ==
    (call.op = "malloc" /\ call.ret # NULL) =>
        LET b == call.ret - HeaderSize
            blk == Load(mem, b)
        IN  /\ b \in BlockSet(Heap)
            /\ blk.used
            /\ UGe(blk.size, call.arg)
            /\ call.arg >= 0
            /\ heap_start <= b
            /\ call.ret + call.arg <= b + HeaderSize + blk.size
            /\ b + HeaderSize + blk.size <= heap_end

\* malloc has just returned a block larger than the positive size asked for
C7_Witness ==
    /\ call.op = "malloc" /\ call.ret # NULL /\ call.arg > 0
    /\ Load(mem, call.ret - HeaderSize).size > call.arg

\* C8: split rule.  A successful malloc(size) splits the chosen block iff
\* its size exceeds size by more than 2*sizeof(heap_block).  When it splits,
\* the returned block has size exactly size and a new unused block of size
\* old_size - size - sizeof(heap_block) follows it directly; otherwise no
\* block is created and the returned block keeps its size.
C8_SplitRule ==
    [][(call'.op = "malloc" /\ call'.ret # NULL) =>
        LET b == call'.ret - HeaderSize
            size == call'.arg
            old == Load(mem, b).size
            nb == b + HeaderSize + size
        IN  IF old - size > 2 * HeaderSize
            THEN /\ Load(mem', b).size = size
                 /\ Load(mem', b).next = nb
                 /\ nb \in BlockSet(Heap')
                 /\ nb \notin BlockSet(Heap)
                 /\ ~Load(mem', nb).used
                 /\ Load(mem', nb).size = old - size - HeaderSize
                 /\ BlockSet(Heap') = BlockSet(Heap) \cup {nb}
            ELSE /\ BlockList(Heap') = BlockList(Heap)
                 /\ Load(mem', b).size = old
      ]_vars

\* malloc has just kept whole a block that exceeds the request by exactly
\* 2*sizeof(heap_block)
C8_Witness ==
    /\ call.op = "malloc" /\ call.ret # NULL
    /\ Load(mem, call.ret - HeaderSize).size = call.arg + 2 * HeaderSize

\* C9: exhaustion.  malloc(size) returns NULL exactly when no block of the
\* list is unused with block.size >= size, and a failing malloc leaves
\* every block header, first_block and last_block unchanged.
C9_Exhaustion ==
    [][call'.op = "malloc" =>
        /\ (call'.ret = NULL) <=>
              ~\E b \in BlockSet(Heap) :
                  ~Load(mem, b).used /\ UGe(Load(mem, b).size, call'.arg)
        /\ call'.ret = NULL => Heap' = Heap
      ]_vars

\* malloc(1) has just failed on an initialised heap of several blocks, all
\* of them used
C9_Witness ==
    /\ Inited
    /\ call.op = "malloc" /\ call.ret = NULL /\ call.arg = 1
    /\ Len(BlockList(Heap)) >= 2
    /\ \A b \in BlockSet(Heap) : Load(mem, b).used

\* The list as the callers could observe it: the headers of its blocks and
\* the two list globals
ListView(h) ==
    [blocks |-> [b \in BlockSet(h) |-> Load(h.mem, b)],
     first_block |-> h.first_block, last_block |-> h.last_block]

\* C10 as stated: a further free(p) of a pointer that was freed already
\* leaves the block list, first_block and last_block unchanged, whatever
\* merges happened since the first free(p).
C10_DoubleFreeIsNoOp ==
    [][call'.op = "free_again" => ListView(Heap') = ListView(Heap)]_vars

\* C10, amended: a further free(p) of a pointer that was freed already
\* leaves the heap unchanged when p - sizeof(heap_block) is still the header
\* of a block of the list (no merge has absorbed the block into the one
\* before it).
C10_DoubleFreeInListIsNoOp ==
    [][(call'.op = "free_again"
        /\ call'.arg - HeaderSize \in BlockSet(Heap)) =>
            Heap' = Heap
      ]_vars

\* A pointer has just been freed a second time while its block was still
\* in the list, next to a live allocation
C10_Witness ==
    /\ call.op = "free_again"
    /\ call.arg - HeaderSize \in BlockSet(Heap)
    /\ DOMAIN live # {}
    /\ Len(BlockList(Heap)) >= 3

\* C11: free(p) of a pointer outside [heap_start, heap_end) leaves every
\* block header, first_block, last_block and the contents of every live
\* allocation unchanged.
C11_ForeignFreeIsNoOp ==
    [][call'.op = "free_foreign" =>
        /\ ListView(Heap') = ListView(Heap)
        /\ data' = data
      ]_vars

\* C12: reuse.  From a freshly initialised heap, after A = malloc(S1) and
\* B = malloc(S2) succeed and A is freed, malloc(S3) with S3 <= S1 returns
\* the address A, and B's block keeps its size, its used flag and its owner.
C12_Reuse ==
    [][IsReuseRun(hist'.calls) =>
        LET A == hist'.calls[2].ret
            B == hist'.calls[3].ret
        IN  /\ call'.ret = A
            /\ B \in DOMAIN live' /\ live'[B] = live[B]
            /\ B - HeaderSize \in BlockSet(Heap')
            /\ Load(mem', B - HeaderSize).used
            /\ Load(mem', B - HeaderSize).size = Load(mem, B - HeaderSize).size
      ]_vars

\* The run has ended with a malloc of a smaller positive size than A's,
\* which was given A's address
C12_Witness ==
    /\ IsReuseRun(hist.calls)
    /\ 0 < hist.calls[5].arg /\ hist.calls[5].arg < hist.calls[2].arg
    /\ hist.calls[5].ret = hist.calls[2].ret

C15_InitOneFreeBlock ==
    call.op = "heap_init" =>
        /\ heap_start = HeapBase
        /\ heap_end = HeapBase + HeapBufferSize
        /\ first_block = heap_start /\ last_block = heap_start
        /\ BlockList(Heap) = <<heap_start>>
        /\ Load(mem, heap_start) =
              [used |-> FALSE, size |-> HeapBufferSize - HeaderSize,
               previous |-> NULL, next |-> NULL]

\* heap_init has just run
C15_Witness ==
    /\ call.op = "heap_init"
    /\ heap_end - heap_start = HeapBufferSize
    /\ Len(BlockList(Heap)) = 1

\* C16: malloc(0) takes the lowest-address unused block whatever its size:
\* it returns NULL only when every block is used (then nothing changes),
\* and otherwise the payload address of that block, which is marked used and
\* is split down to size 0 exactly when its size exceeded
\* 2*sizeof(heap_block).
C16_ZeroSizeRequest ==
    [][(call'.op = "malloc" /\ call'.arg = 0) =>
        LET unused == {b \in BlockSet(Heap) : ~Load(mem, b).used}
            lowest == CHOOSE b \in unused : \A c \in unused : b <= c
        IN  /\ unused = {} =>
                  call'.ret = NULL /\ ListView(Heap') = ListView(Heap)
            /\ unused # {} =>
                  /\ call'.ret = lowest + HeaderSize
                  /\ lowest \in BlockSet(Heap')
                  /\ Load(mem', lowest).used
                  /\ Load(mem, lowest).size > 2 * HeaderSize =>
                        /\ Load(mem', lowest).size = 0
                        /\ Load(mem', lowest).next = lowest + HeaderSize
                        /\ Len(BlockList(Heap')) = Len(BlockList(Heap)) + 1
                  /\ Load(mem, lowest).size <= 2 * HeaderSize =>
                        /\ Load(mem', lowest).size = Load(mem, lowest).size
                        /\ BlockList(Heap') = BlockList(Heap)
      ]_vars

\* malloc(0) has just been given a whole block of positive size, too small
\* to split
C16_Witness ==
    /\ call.op = "malloc" /\ call.arg = 0 /\ call.ret # NULL
    /\ Load(mem, call.ret - HeaderSize).used
    /\ Load(mem, call.ret - HeaderSize).size > 0
    /\ Load(mem, call.ret - HeaderSize).size <= 2 * HeaderSize

\* C17: expand_heap returns false and changes nothing, so a malloc call is
\* one scan of the list and at most one call of expand_heap, and a failed
\* malloc leaves the heap as it was; the list is finite and acyclic
\* (addresses strictly increase along next and the chain ends in NULL within
\* MaxBlocks steps), so the scan ends; and the heap bounds stay those of the
\* initial buffer.
C17_FixedCapacity ==
    [][/\ Inited' =>
            /\ heap_start' = HeapBase
            /\ heap_end' = HeapBase + HeapBufferSize
            /\ LET l == BlockList(Heap')
               IN  /\ Len(l) >= 1 /\ Len(l) < MaxBlocks
                   /\ \A k \in 1..(Len(l) - 1) : l[k] < l[k+1]
                   /\ Load(mem', l[Len(l)]).next = NULL
                   /\ \A k \in 1..Len(l) :
                         heap_start' <= l[k] /\ l[k] + HeaderSize <= heap_end'
       /\ call'.op = "malloc" =>
            /\ malloc_trace(Heap, call'.arg) \in
                  {<<"do_malloc">>, <<"do_malloc", "expand_heap">>}
            /\ (call'.ret = NULL) <=>
                  (malloc_trace(Heap, call'.arg) = <<"do_malloc", "expand_heap">>)
            /\ call'.ret = NULL =>
                  /\ ListView(Heap') = ListView(Heap)
                  /\ heap_start' = heap_start /\ heap_end' = heap_end
      ]_vars

\* A malloc has just failed on an initialised heap of several blocks: it
\* scanned the whole list and called expand_heap
C17_Witness ==
    /\ call.op = "malloc" /\ call.ret = NULL
    /\ Inited
    /\ Len(BlockList(Heap)) >= 3

\* C19: for every error constant E of errno.h, strerror(E) returns the
\* message that sys_errlist lists for E, and the index strerror reads is
\* inside the sys_errlist table.
C19_StrerrorDescribesCode ==
    (strcall.fn = "strerror"
     /\ \E k \in 1..Len(errno_h) : errno_h[k].value = strcall.errnum) =>
        LET E == CHOOSE k \in 1..Len(errno_h) :
                    errno_h[k].value = strcall.errnum
        IN  /\ strcall.read >= 0 /\ strcall.read < Len(sys_errlist)
            /\ \E k \in 1..Len(sys_errlist) :
                  /\ sys_errlist[k].for = errno_h[E].name
                  /\ sys_errlist[k].msg = strcall.ret

\* C20: strncpy(dest, src, n) writes exactly the n bytes dest[0..n-1]: the
\* first min(strlen(src), n) characters of src, then null bytes; it writes
\* neither dest[n] nor any byte beyond it.
C20_StrncpyWritesNBytes ==
    (strcall.fn = "strncpy" /\ strcall.at = "done") =>
        /\ strcall.written = 0..(strcall.n0 - 1)
        /\ \A k \in 0..(strcall.n0 - 1) :
              strcall.dest[k] = CharAt(strcall.src, k)
        /\ \A k \in strcall.n0..(MaxN + 1) : strcall.dest[k] = Canary

\* C18: several callers, every malloc and free call under one lock, each
\* caller freeing only live pointers it obtained.  In every state outside a
\* call (nobody holds the lock, every caller is idle) the sizes and headers
\* of the list sum to the buffer size, the list is gap-free, no two adjacent
\* blocks are both unused, and no two live allocations overlap each other
\* or a header; the callers hold disjoint sets of pointers, all live.  At
\* most one caller is inside a call, the one holding the lock, and a call
\* that has reached its return has done to the heap what the whole function
\* does to the heap it found on entry.
C18_LockedInvariants ==
    /\ \A t \in Threads : thr.pc[t].at # "idle" => thr.lock = t
    /\ \A t \in Threads :
          thr.pc[t].at = "ret" =>
              IF thr.pc[t].op = "malloc"
              THEN LET r == malloc(thr.pc[t].h0, thr.pc[t].arg)
                   IN  /\ thr.pc[t].ptr = r.ret
                       /\ ListView(Heap) = ListView(r.heap)
              ELSE ListView(Heap) = ListView(free(thr.pc[t].h0, thr.pc[t].arg))
    /\ (Inited /\ \A t \in Threads : thr.pc[t].at = "idle") =>
          /\ SumSizes(mem, BlockList(Heap)) = HeapBufferSize
          /\ first_block = heap_start
          /\ \A b \in BlockSet(Heap) :
                IF Load(mem, b).next # NULL
                THEN Load(mem, b).next = b + HeaderSize + Load(mem, b).size
                ELSE b + HeaderSize + Load(mem, b).size = heap_end
          /\ \A b \in BlockSet(Heap) :
                Load(mem, b).next # NULL =>
                    Load(mem, b).used \/ Load(mem, Load(mem, b).next).used
          /\ \A p, q \in DOMAIN live :
                p # q => ~Intersects(p, live[p], q, live[q])
          /\ \A p \in DOMAIN live : \A b \in BlockSet(Heap) :
                ~Intersects(p, live[p], b, HeaderSize)
          /\ \A t, u \in Threads :
                t # u => thr.held[t] \cap thr.held[u] = {}
          /\ UNION {thr.held[t] : t \in Threads} = DOMAIN live
          /\ \A p \in DOMAIN live :
                /\ p - HeaderSize \in BlockSet(Heap)
                /\ Load(mem, p - HeaderSize).used

\* Outside any call, both callers hold live allocations, and the last call
\* was a free by one of them that merged blocks while the other's stayed
C18_Witness ==
    /\ thr.lock = 0 /\ \A t \in Threads : thr.pc[t].at = "idle"
    /\ \A t \in Threads : thr.held[t] # {}
    /\ call.op = "free"
    /\ call.arg - HeaderSize \notin BlockSet(Heap)
    /\ Len(BlockList(Heap)) >= 3

\* C21: stpncpy(dest, src, n) returns dest + strlen(src), the address of
\* the null terminator in dest, whenever strlen(src) < n, and returns
\* dest + n only when src has no null byte among its first n characters.
C21_StpncpyReturnsTerminator ==
    (strcall.fn = "stpncpy" /\ strcall.at = "done") =>
        /\ Len(strcall.src) < strcall.n0 => strcall.ret = Len(strcall.src)
        /\ strcall.ret = strcall.n0 => Len(strcall.src) >= strcall.n0

\* C22: under valid usage the doubly-linked structure is consistent: for
\* every block b of the list, b.next # NULL implies b.next.previous = b and
\* b.previous # NULL implies b.previous.next = b; first_block stays at
\* heap_start with previous = NULL; and last_block is the one block of the
\* list whose next is NULL.
C22_LinksConsistent ==
    Inited =>
        /\ \A b \in BlockSet(Heap) :
              /\ Load(mem, b).next # NULL =>
                    Load(mem, Load(mem, b).next).previous = b
              /\ Load(mem, b).previous # NULL =>
                    /\ Load(mem, b).previous \in BlockSet(Heap)
                    /\ Load(mem, Load(mem, b).previous).next = b
        /\ first_block = heap_start /\ heap_start = HeapBase
        /\ Load(mem, first_block).previous = NULL
        /\ last_block \in BlockSet(Heap)
        /\ \A b \in BlockSet(Heap) :
              (Load(mem, b).next = NULL) <=> (b = last_block)

\* A free has just merged the freed block into the last block of a list of
\* several blocks
C22_Witness ==
    /\ call.op = "free"
    /\ Len(BlockList(Heap)) >= 2
    /\ last_block < call.arg - HeaderSize
    /\ last_block # first_block

\* C23: at every call of heap_merge_blocks(first, second) that free makes,
\* both blocks are unused blocks of the list, second = first.next, and
\* second's header is at first + sizeof(heap_block) + first.size; at every
\* call of heap_split_block(first, size) that do_malloc makes, first is an
\* unused block with first.size > size + 2*sizeof(heap_block), so the
\* remainder first.size - size - sizeof(heap_block) does not underflow.
\* The calls are those of the code: the last one leaves the heap the whole
\* function leaves.
C23_PrimitivePreconditions ==
    [][/\ call'.op = "free" =>
            \A cs \in {free_merges(Heap, call'.arg)} :
                /\ \A k \in 1..Len(cs) :
                      LET m == cs[k].heap.mem
                          first == cs[k].first
                          second == cs[k].second
                      IN  /\ first \in BlockSet(cs[k].heap)
                          /\ second \in BlockSet(cs[k].heap)
                          /\ ~Load(m, first).used
                          /\ ~Load(m, second).used
                          /\ Load(m, first).next = second
                          /\ second = first + HeaderSize + Load(m, first).size
                /\ cs # <<>> =>
                      ListView(Heap') =
                          ListView(heap_merge_blocks(cs[Len(cs)].heap,
                                                     cs[Len(cs)].first,
                                                     cs[Len(cs)].second))
                /\ cs = <<>> =>
                      BlockList(Heap') = BlockList(Heap)
       /\ call'.op = "malloc" =>
            \A cs \in {do_malloc_splits(Heap, call'.arg)} :
                /\ \A k \in 1..Len(cs) :
                      LET blk == Load(cs[k].heap.mem, cs[k].first)
                      IN  /\ cs[k].first \in BlockSet(cs[k].heap)
                          /\ ~blk.used
                          /\ cs[k].size >= 0
                          /\ blk.size > cs[k].size + 2 * HeaderSize
                          /\ blk.size - cs[k].size - HeaderSize >= 0
                          /\ call'.ret = cs[k].first + HeaderSize
                /\ (cs # <<>>) <=>
                      Len(BlockList(Heap')) = Len(BlockList(Heap)) + 1
      ]_vars

\* A free has just merged the freed block into the unused block before it,
\* which now ends a list of several blocks
C23_Witness ==
    /\ call.op = "free"
    /\ call.arg - HeaderSize \notin BlockSet(Heap)
    /\ Covering(Heap, call.arg - HeaderSize) # NULL
    /\ Load(mem, Covering(Heap, call.arg - HeaderSize)).next = NULL
    /\ Len(BlockList(Heap)) >= 2

\* C24: before heap_init has been called the heap globals are all zero and
\* no header is stored; every malloc then returns NULL, with first_block
\* NULL so that do_malloc's loop visits no block, and every free returns
\* without writing anything; a malloc that succeeds comes after heap_init.
C24_HarmlessBeforeInit ==
    [][/\ heap_end = 0 =>
            /\ heap_start = 0 /\ first_block = NULL /\ last_block = NULL
            /\ mem = <<>> /\ live = <<>>
       /\ (heap_end = 0 /\ call'.op = "malloc") =>
            /\ call'.ret = NULL
            /\ do_malloc(Heap, call'.arg) = [heap |-> Heap, ret |-> NULL]
            /\ Heap' = Heap /\ live' = live
       /\ (heap_end = 0 /\ call'.op = "free_stray") =>
            /\ Heap' = Heap /\ live' = live
       /\ (call'.op = "malloc" /\ call'.ret # NULL) => heap_end # 0
      ]_vars

\* malloc(0), which any unused block would satisfy, has just returned NULL
\* on the heap that was never initialised
C24_Witness ==
    /\ heap_end = 0
    /\ call.op = "malloc" /\ call.arg = 0 /\ call.ret = NULL

\* C25: free tests the header address p - sizeof(heap_block), taken modulo
\* 2^64: whenever it is below heap_start or not below heap_end, free(p)
\* changes nothing.  That is the case for free(NULL) and for free(p) with
\* heap_start <= p < heap_start + sizeof(heap_block).
C25_HeaderAddressTest ==
    [][call'.op = "free_stray" =>
        /\ (\/ ULt(call'.arg - HeaderSize, heap_start)
            \/ UGe(call'.arg - HeaderSize, heap_end)) =>
              /\ Heap' = Heap /\ live' = live /\ data' = data
        /\ call'.arg = NULL => UGe(call'.arg - HeaderSize, heap_end)
        /\ (heap_start <= call'.arg
            /\ call'.arg < heap_start + HeaderSize) =>
              /\ \/ ULt(call'.arg - HeaderSize, heap_start)
                 \/ UGe(call'.arg - HeaderSize, heap_end)
              /\ Heap' = Heap
      ]_vars

\* free has just been called with a pointer into the first header of an
\* initialised heap that holds live allocations
C25_Witness ==
    /\ call.op = "free_stray"
    /\ Inited
    /\ heap_start < call.arg /\ call.arg < heap_start + HeaderSize
    /\ Cardinality(DOMAIN live) >= 2

\* C26: round trip.  From any state of valid usage, a malloc that succeeds
\* followed at once by free of the pointer it returned leaves the block
\* list as it was before the malloc: the same blocks with the same sizes,
\* flags and links, the same first_block and last_block.
C26_RoundTrip ==
    (/\ hist.on /\ Len(hist.calls) = 2
     /\ hist.calls[1].op = "malloc" /\ hist.calls[1].ret # NULL
     /\ hist.calls[2].op = "free" /\ hist.calls[2].arg = hist.calls[1].ret) =>
        /\ ListView(Heap) = ListView(hist.from)
        /\ heap_start = hist.from.heap_start /\ heap_end = hist.from.heap_end

\* A round trip has just ended on a heap that holds two live allocations
\* and several blocks, its malloc having asked for less than the block it
\* was given
C26_Witness ==
    /\ hist.on /\ Len(hist.calls) = 2
    /\ hist.calls[1].op = "malloc" /\ hist.calls[1].ret # NULL
    /\ hist.calls[2].op = "free" /\ hist.calls[2].arg = hist.calls[1].ret
    /\ Cardinality(DOMAIN live) = 2
    /\ Len(BlockList(Heap)) >= 4
    /\ hist.calls[1].arg
          < Load(mem, Covering(Heap, hist.calls[1].ret)).size

\* C27: full coalescing.  Under valid usage, whenever every allocation has
\* been freed, the list is again the single unused block at heap_start of
\* size sizeof(heap_buffer) - sizeof(heap_block), with null links and
\* first_block = last_block: the state heap_init produced.
C27_FullCoalescing ==
    (Inited /\ DOMAIN live = {}) =>
        /\ BlockList(Heap) = <<heap_start>>
        /\ first_block = heap_start /\ last_block = heap_start
        /\ Load(mem, heap_start) =
              [used |-> FALSE, size |-> HeapBufferSize - HeaderSize,
               previous |-> NULL, next |-> NULL]
        /\ ListView(Heap) = ListView(heap_init(Heap))

\* The last live allocation has just been freed, and it was not the block
\* at heap_start: blocks allocated before it had been freed before it
C27_Witness ==
    /\ Inited /\ DOMAIN live = {}
    /\ call.op = "free"
    /\ call.arg - HeaderSize > heap_start

\* C28: for every request size, the block on which do_malloc evaluates the
\* split test has block.size >= size, so size is at most the payload
\* capacity and size + 2*sizeof(heap_block) does not wrap around; and every
\* request above the payload capacity sizeof(heap_buffer) -
\* sizeof(heap_block), sizes near SIZE_MAX included, returns NULL and changes
\* no state.
C28_NoWrapInSplitTest ==
    [][call'.op = "malloc" =>
        /\ call'.ret # NULL =>
              /\ call'.arg >= 0
              /\ call'.arg <= Load(mem, call'.ret - HeaderSize).size
              /\ Load(mem, call'.ret - HeaderSize).size
                    <= HeapBufferSize - HeaderSize
              /\ call'.arg + 2 * HeaderSize <= HeapBufferSize + HeaderSize
        /\ UGt(call'.arg, HeapBufferSize - HeaderSize) =>
              /\ call'.ret = NULL
              /\ Heap' = Heap /\ live' = live
      ]_vars

\* A request of SIZE_MAX - 63 bytes, for which size + 2*sizeof(heap_block)
\* wraps to 0, has just returned NULL on a heap with unused blocks
C28_Witness ==
    /\ call.op = "malloc" /\ call.arg = SIZE_MAX - 2 * HeaderSize + 1
    /\ call.ret = NULL
    /\ \E b \in BlockSet(Heap) : ~Load(mem, b).used /\ Load(mem, b).size > 0
    /\ Cardinality(DOMAIN live) >= 1

\* C29: for any sequence of request sizes, every block header of the list
\* and every pointer malloc returned lies at an offset from heap_start that
\* is a multiple of the alignment of heap_block, 8 bytes.
C29_NaturalAlignment ==
    Inited =>
        /\ \A b \in BlockSet(Heap) : (b - heap_start) % HeapBlockAlign = 0
        /\ \A p \in DOMAIN live : (p - heap_start) % HeapBlockAlign = 0

\* C30: payload frame.  Under valid usage a malloc or free call changes
\* memory only at block headers, none of which shares a byte with an
\* allocation that is live before and after the call; and the header a split
\* adds lies entirely inside the former payload of the unused block that is
\* split.
C30_PayloadFrame ==
    [][/\ call'.op = "malloc" =>
            \A r \in {malloc(Heap, call'.arg)} :
                /\ \A a \in Written(mem, r.heap.mem) : \A p \in DOMAIN live :
                      ~Intersects(a, HeaderSize, p, live[p])
                /\ \A b \in BlockSet(r.heap) \ BlockSet(Heap) :
                      LET i == call'.ret - HeaderSize
                      IN  /\ i \in BlockSet(Heap)
                          /\ ~Load(mem, i).used
                          /\ i + HeaderSize <= b
                          /\ b + HeaderSize
                                <= i + HeaderSize + Load(mem, i).size
                /\ \A a \in Written(mem, r.heap.mem) :
                      a \in BlockSet(r.heap)
                /\ ListView(r.heap) = ListView(Heap')
       /\ call'.op = "free" =>
            \A h \in {free(Heap, call'.arg)} :
                /\ \A a \in Written(mem, h.mem) :
                      \A p \in DOMAIN live \ {call'.arg} :
                          ~Intersects(a, HeaderSize, p, live[p])
                /\ \A a \in Written(mem, h.mem) :
                      a \in BlockSet(Heap)
                /\ ListView(h) = ListView(Heap')
      ]_vars

\* A malloc has just split a block that lay between two live allocations
\* of positive size
C30_Witness ==
    /\ call.op = "malloc" /\ call.ret # NULL
    /\ Load(mem, call.ret - HeaderSize).size = call.arg
    /\ \E p, q \in DOMAIN live :
          /\ p < call.ret /\ call.ret < q
          /\ live[p] > 0 /\ live[q] > 0
    /\ ~Load(mem, Load(mem, call.ret - HeaderSize).next).used

\* The maximal delimiter-free substrings of s, as pairs <<i, j>> of the
\* positions of their first and last characters
TokenRuns(s, delim) ==
    {r \in (1..Len(s)) \X (1..Len(s)) :
        /\ r[1] <= r[2]
        /\ \A k \in r[1]..r[2] : ~InAccept(s[k], delim)
        /\ r[1] > 1 => InAccept(s[r[1] - 1], delim)
        /\ r[2] < Len(s) => InAccept(s[r[2] + 1], delim)}

\* C31: for every string s (the empty string and strings of delimiters
\* included) and every delimiter set, the calls strtok_r(s, delim, &save),
\* strtok_r(NULL, delim, &save), ... return the maximal delimiter-free
\* substrings of s in order and then NULL, every call after the first NULL
\* returns NULL, and each continuation call reads only save state that an
\* earlier call on the same string wrote.
C31_TokenizerSequence ==
    strcall.fn = "strtok_r" =>
        /\ ~strcall.fault
        /\ \A k \in 1..Len(strcall.rets) :
              LET runs == TokenRuns(strcall.orig, strcall.delim)
                  ret == strcall.rets[k]
              IN  /\ ret.from = IF k = 1 THEN "arg" ELSE "cur"
                  /\ IF k <= Cardinality(runs)
                     THEN \E r \in runs :
                            /\ Cardinality({q \in runs : q[1] < r[1]}) = k - 1
                            /\ ret.ptr = Ptr("cur", r[1] - 1)
                            /\ ret.str = SubSeq(strcall.orig, r[1], r[2])
                     ELSE ret.ptr = NullPtr

====
